---- MODULE Spec2Model ----
(***************************************************************************)
(* Model of src/fun.cpp: find_pattern(se, pa), a rolling-hash (Rabin-Karp  *)
(* style) substring search, and the scenario main() runs.                  *)
(*                                                                         *)
(* The C++ code keeps both hashes in `long long` (signed 64 bit) but       *)
(* computes every update in `double` (pow returns double), so a step is    *)
(*   long long -> double, double arithmetic (IEEE-754 binary64, round to   *)
(*   nearest even, 53 significant bits), double -> long long (truncation,  *)
(*   undefined when the value is outside the long long range).             *)
(* TLC's integers are 32 bit wide, so 64 bit values are kept as            *)
(* sign-and-magnitude numbers over limbs of LimbBits bits; the arithmetic  *)
(* below is exact, and the rounding and the range check are the ones of    *)
(* the real types.                                                         *)
(***************************************************************************)
EXTENDS Integers, Sequences, FiniteSets, TLC

(***************************************************************************)
(* Natural numbers of any size: little-endian sequences of limbs in        *)
(* 0..Base-1 without a leading (last) zero limb; <<>> is zero.             *)
(***************************************************************************)
LimbBits == 15

Base == 2^LimbBits

RECURSIVE NNorm(_)
NNorm(x) ==
    IF x = <<>> THEN <<>>
    ELSE IF x[Len(x)] = 0 THEN NNorm(SubSeq(x, 1, Len(x) - 1))
    ELSE x

NFromInt(k) ==
    NNorm(<<k % Base, (k \div Base) % Base, k \div (Base * Base)>>)

RECURSIVE NAddC(_, _, _)
NAddC(x, y, carry) ==
    IF x = <<>> /\ y = <<>> THEN (IF carry = 0 THEN <<>> ELSE <<carry>>)
    ELSE LET a == IF x = <<>> THEN 0 ELSE Head(x)
             b == IF y = <<>> THEN 0 ELSE Head(y)
             s == a + b + carry
         IN  <<s % Base>> \o NAddC(IF x = <<>> THEN <<>> ELSE Tail(x),
                                   IF y = <<>> THEN <<>> ELSE Tail(y),
                                   s \div Base)

NAdd(x, y) == NAddC(x, y, 0)

\* x - y for x >= y
RECURSIVE NSubB(_, _, _)
NSubB(x, y, borrow) ==
    IF x = <<>> THEN <<>>
    ELSE LET b == IF y = <<>> THEN 0 ELSE Head(y)
             s == Head(x) - b - borrow
         IN  <<s % Base>> \o NSubB(Tail(x),
                                   IF y = <<>> THEN <<>> ELSE Tail(y),
                                   IF s < 0 THEN 1 ELSE 0)

NSub(x, y) == NNorm(NSubB(x, y, 0))

\* x < y
RECURSIVE NLessFrom(_, _, _)
NLessFrom(x, y, j) ==
    IF j = 0 THEN FALSE
    ELSE IF x[j] # y[j] THEN x[j] < y[j]
    ELSE NLessFrom(x, y, j - 1)

NLess(x, y) ==
    IF Len(x) # Len(y) THEN Len(x) < Len(y) ELSE NLessFrom(x, y, Len(x))

\* x * k for 0 <= k <= Base
RECURSIVE NMulC(_, _, _)
NMulC(x, k, carry) ==
    IF x = <<>> THEN (IF carry = 0 THEN <<>> ELSE <<carry>>)
    ELSE LET s == Head(x) * k + carry
         IN  <<s % Base>> \o NMulC(Tail(x), k, s \div Base)

NMulSmall(x, k) == NNorm(NMulC(x, k, 0))

\* x * 2^s
NShl(x, s) ==
    IF x = <<>> THEN <<>>
    ELSE [j \in 1..(s \div LimbBits) |-> 0] \o NMulSmall(x, 2^(s % LimbBits))

\* floor(x / 2^s)
NShr(x, s) ==
    LET q == s \div LimbBits
        r == s % LimbBits
        y == IF q >= Len(x) THEN <<>> ELSE SubSeq(x, q + 1, Len(x))
    IN  NNorm([j \in 1..Len(y) |->
                 (y[j] \div 2^r)
                 + (IF j < Len(y) THEN (y[j + 1] % 2^r) * 2^(LimbBits - r) ELSE 0)])

RECURSIVE BitLenSmall(_)
BitLenSmall(k) == IF k = 0 THEN 0 ELSE 1 + BitLenSmall(k \div 2)

\* number of significant bits of x
NBitLen(x) ==
    IF x = <<>> THEN 0 ELSE LimbBits * (Len(x) - 1) + BitLenSmall(x[Len(x)])

NIsOdd(x) == x # <<>> /\ x[1] % 2 = 1

(***************************************************************************)
(* Signed numbers: [neg, mag], zero is never negative.                     *)
(***************************************************************************)
ZMake(neg, mag) == [neg |-> neg /\ mag # <<>>, mag |-> mag]

ZFromInt(k) == IF k < 0 THEN ZMake(TRUE, NFromInt(-k)) ELSE ZMake(FALSE, NFromInt(k))

ZNeg(z) == ZMake(~z.neg, z.mag)

ZAdd(a, b) ==
    IF a.neg = b.neg THEN ZMake(a.neg, NAdd(a.mag, b.mag))
    ELSE IF NLess(a.mag, b.mag) THEN ZMake(b.neg, NSub(b.mag, a.mag))
    ELSE ZMake(a.neg, NSub(a.mag, b.mag))

ZSub(a, b) == ZAdd(a, ZNeg(b))

\* z * k for a small integer |k| <= Base
ZMulSmall(z, k) ==
    IF k < 0 THEN ZMake(~z.neg, NMulSmall(z.mag, -k))
    ELSE ZMake(z.neg, NMulSmall(z.mag, k))

ZShl(z, s) == ZMake(z.neg, NShl(z.mag, s))

ZLess(a, b) ==
    IF a.neg # b.neg THEN a.neg
    ELSE IF a.neg THEN NLess(b.mag, a.mag)
    ELSE NLess(a.mag, b.mag)

(***************************************************************************)
(* The C++ types.  A long long is a signed number in -2^63 .. 2^63-1.  A   *)
(* double is kept as a signed count of units of 2^-FracBits: the smallest  *)
(* power the program forms is pow(2, m-1) with m = 0, so every double it   *)
(* computes is a multiple of 1/2, and exponent overflow is out of reach.   *)
(***************************************************************************)
LLONG_BITS == 63

DBL_MANT_DIG == 53

FracBits == 1

LLONG_MIN == ZMake(TRUE, NShl(<<1>>, LLONG_BITS))

LLONG_MAX == ZMake(FALSE, NSub(NShl(<<1>>, LLONG_BITS), <<1>>))

InLongLong(z) == ~ZLess(z, LLONG_MIN) /\ ~ZLess(LLONG_MAX, z)

\* IEEE-754 rounding of an exact value to DBL_MANT_DIG significant bits,
\* ties to even.
RoundD(z) ==
    LET len == NBitLen(z.mag)
        s == len - DBL_MANT_DIG
        q == NShr(z.mag, s)
        r == NSub(z.mag, NShl(q, s))
        half == NShl(<<1>>, s - 1)
        up == NLess(half, r) \/ (r = half /\ NIsOdd(q))
    IN  IF len <= DBL_MANT_DIG THEN z
        ELSE ZMake(z.neg, NShl(IF up THEN NAdd(q, <<1>>) ELSE q, s))

\* (double) of a long long
DFromLL(x) == RoundD(ZShl(x, FracBits))

\* (double) of an int or a char
DFromInt(k) == ZShl(ZFromInt(k), FracBits)

\* Mutant of Pow2: an integer power of two (as 1 << e would give), which has
\* no fractional value and is 0 for e < 0.
Pow2Integral(e) ==
    IF e < 0 THEN ZMake(FALSE, <<>>) ELSE ZMake(FALSE, NShl(<<1>>, e + FracBits))

\* pow(2, e) for an int e >= -FracBits
Pow2(e) == ZMake(FALSE, NShl(<<1>>, e + FracBits))

\* double * int (the int operand is converted to double; both products of
\* the program have a char or d = 2 as the int operand)
DMulInt(x, k) == RoundD(ZMulSmall(x, k))

DAdd(a, b) == RoundD(ZAdd(a, b))

DSub(a, b) == RoundD(ZSub(a, b))

\* the value of a double truncated toward zero
DTrunc(x) == ZMake(x.neg, NShr(x.mag, FracBits))

\* (long long) of a double is undefined when the truncated value is not
\* representable
DOutOfRange(x) == ~InLongLong(DTrunc(x))

\* What an out-of-range conversion yields is a property of the build:
\* x86-64 (cvttsd2si) yields the "integer indefinite" value LLONG_MIN whatever
\* the sign, AArch64 (fcvtzs) saturates.
Builds == {"x86-64", "aarch64"}

\* The long long a double converts to on build b.  Out of range, the
\* conversion is undefined behaviour.
DToLL(x, b) ==
    IF ~DOutOfRange(x) THEN DTrunc(x)
    ELSE IF b = "x86-64" THEN LLONG_MIN
    ELSE IF x.neg THEN LLONG_MIN ELSE LLONG_MAX

(***************************************************************************)
(* Inputs.  A string is a sequence of char codes; se[k] of the C++ code is *)
(* se[k + 1] here.                                                         *)
(***************************************************************************)
\* 'a', 'b', 'c'
Alphabet == {97, 98, 99}

\* bounds of the exhaustively enumerated short inputs
MaxText == 3

MaxPat == 3

\* bounds of the long inputs: the pattern is one character repeated
\* WideMin..WideMax times, the text is up to MaxLead copies of a character
\* followed by the pattern
WideMin == 47

WideMax == 57

MaxLead == 1

Strings(maxLen) == UNION {[1..k -> Alphabet] : k \in 0..maxLen}

Rep(ch, k) == [j \in 1..k |-> ch]

\* main(): s1 = "eksksforgreeks", s2 = "eks"
s1 == <<101, 107, 115, 107, 115, 102, 111, 114, 103, 114, 101, 101, 107, 115>>

s2 == <<101, 107, 115>>

ShortInputs == Strings(MaxText) \X Strings(MaxPat)

LongInputs ==
    {<<Rep(x, k) \o Rep(a, len), Rep(a, len)>> :
        x \in Alphabet, a \in Alphabet, k \in 0..MaxLead, len \in WideMin..WideMax}

Inputs == ShortInputs \cup LongInputs \cup {<<s1, s2>>}

(***************************************************************************)
(* find_pattern                                                            *)
(***************************************************************************)
VARIABLES
    build,      \* the platform the program was built for (never assigned)
    se,         \* the text (parameter, never assigned)
    pa,         \* the pattern (parameter, never assigned)
    pc,         \* position in find_pattern: "hash" (loop of lines 13-17),
                \* "slide" (loop of lines 27-33), "done" (returned)
    i,          \* the loop variable of the loop pc names
    c,          \* int c: exponent of the next term of the first loop
    sum1,       \* long long sum1: hash of the current window
    sum2,       \* long long sum2: hash of the pattern
    out,        \* the offsets written to cout, in order
    evals,      \* history: number of sum1 == sum2 comparisons evaluated
    pastEnd,    \* history: se[k] was read with k >= n
    overflowed  \* history: a double outside the long long range was converted

vars == <<build, se, pa, pc, i, c, sum1, sum2, out, evals, pastEnd, overflowed>>

d == 2

m == Len(pa)

n == Len(se)

\* Characters an out-of-bounds read may yield in the model (any char in the
\* program): the string's own terminator, a stray byte with the high bit set,
\* or a letter.
StrayChars == Alphabet \cup {0, -1}

\* se[k]: the character at k < n; the terminating '\0' at k = n (C++11
\* basic_string::operator[]); undefined behaviour beyond.
ReadText(k) ==
    IF 0 <= k /\ k < n THEN {se[k + 1]}
    ELSE IF k = n THEN {0}
    ELSE StrayChars

Init ==
    /\ build \in Builds
    /\ \E inp \in Inputs : se = inp[1] /\ pa = inp[2]
    /\ pc = "hash"
    /\ i = 0
    /\ c = Len(pa) - 1
    /\ sum1 = ZFromInt(0)
    /\ sum2 = ZFromInt(0)
    /\ out = <<>>
    /\ evals = 0
    /\ pastEnd = FALSE
    /\ overflowed = FALSE

\* sum1 + (pow(2,c) * ch), in double
FirstTerm(sum, ch) == DAdd(DFromLL(sum), DMulInt(Pow2(c), ch))

\* lines 13-17: one iteration of the first loop
HashStep ==
    /\ pc = "hash"
    /\ i < m
    /\ \E ch \in ReadText(i) :
         LET v1 == FirstTerm(sum1, ch)
             v2 == FirstTerm(sum2, pa[i + 1])
         IN  /\ sum1' = DToLL(v1, build)
             /\ sum2' = DToLL(v2, build)
             /\ overflowed' = (overflowed \/ DOutOfRange(v1) \/ DOutOfRange(v2))
    /\ pastEnd' = (pastEnd \/ i >= n)
    /\ c' = c - 1
    /\ i' = i + 1
    /\ UNCHANGED <<build, se, pa, pc, out, evals>>

\* lines 18-20 and the initialisation of the second loop: the first loop is
\* left, window 0 is compared
CompareFirst ==
    /\ pc = "hash"
    /\ ~(i < m)
    /\ out' = IF sum1 = sum2 THEN Append(out, 0) ELSE out
    /\ evals' = evals + 1
    /\ pc' = "slide"
    /\ i' = 1
    /\ UNCHANGED <<build, se, pa, c, sum1, sum2, pastEnd, overflowed>>

\* Mutant of SlideLimit: the loop stops one window early, i < (n-m).
SlideLimitShort == n - m

\* line 27: the second loop runs while i < (n-m+1)
SlideLimit == n - m + 1

\* line 28: d*(sum1-(se[i-1]*pow(2,m-1)))+se[i+m-1], in double
Rolled(sum, leaving, entering) ==
    DAdd(DMulInt(DSub(DFromLL(sum), DMulInt(Pow2(m - 1), leaving)), d),
         DFromInt(entering))

\* Mutant of Printed: the slid window writes the constant of line 19.
PrintedZero(k) == 0

\* line 31: the offset written for a hash match at window k
Printed(k) == k

\* lines 27-33: one iteration of the second loop
SlideStep ==
    /\ pc = "slide"
    /\ i < SlideLimit
    /\ \E leaving \in ReadText(i - 1), entering \in ReadText(i + m - 1) :
         LET v == Rolled(sum1, leaving, entering)
             r == DToLL(v, build)
         IN  /\ sum1' = r
             /\ out' = IF r = sum2 THEN Append(out, Printed(i)) ELSE out
             /\ overflowed' = (overflowed \/ DOutOfRange(v))
    /\ pastEnd' = (pastEnd \/ i - 1 >= n \/ i + m - 1 >= n)
    /\ evals' = evals + 1
    /\ i' = i + 1
    /\ UNCHANGED <<build, se, pa, pc, c, sum2>>

\* line 34: the second loop is left, find_pattern returns
Return ==
    /\ pc = "slide"
    /\ ~(i < SlideLimit)
    /\ pc' = "done"
    /\ UNCHANGED <<build, se, pa, i, c, sum1, sum2, out, evals, pastEnd, overflowed>>

Next == HashStep \/ CompareFirst \/ SlideStep \/ Return

Spec == Init /\ [][Next]_vars

(***************************************************************************)
(* Specification-side definitions: what the claims compare the code with.  *)
(***************************************************************************)
\* text[k .. k+m)
Window(k) == SubSeq(se, k + 1, k + m)

\* the offsets 0..n-m at which the pattern occurs in the text
TrueOffsets == {k \in 0..(n - m) : Window(k) = pa}

\* the offsets written so far
Reported == {out[j] : j \in 1..Len(out)}

\* the exact polynomial hash: sum over k of w[k] * 2^(Len(w)-1-k)
RECURSIVE PolyHashOf(_, _)
PolyHashOf(w, len) ==
    IF len = 0 THEN ZFromInt(0)
    ELSE ZAdd(ZShl(PolyHashOf(w, len - 1), 1), ZFromInt(w[len]))

PolyHash(w) == PolyHashOf(w, Len(w))

(***************************************************************************)
(* Claims                                                                  *)
(***************************************************************************)
\* C1: for a non-empty pattern, the offsets find_pattern has reported when it
\* returns are exactly the offsets at which the pattern occurs in the text.
C1_ExactOffsets ==
    (pc = "done" /\ m >= 1) => Reported = TrueOffsets

\* C2: every offset ever reported is a verified match: it is an offset in
\* 0..n-m whose window equals the pattern element by element.
C2_ReportedIsMatch ==
    \A j \in 1..Len(out) :
        /\ out[j] \in 0..(n - m)
        /\ \A k \in 1..m : se[out[j] + k] = pa[k]

\* C3: when the pattern is longer than the text, nothing is reported and no
\* text position at index >= n is read.
C3_LongPatternNoWindow ==
    m > n => (out = <<>> /\ ~pastEnd)

\* C4: for the empty pattern, find_pattern reports every offset 0, 1, ..., n,
\* each exactly once.
C4_EmptyPattern ==
    (pc = "done" /\ m = 0) => out = [j \in 1..(n + 1) |-> j - 1]

C4_Witness ==
    pc = "done" /\ m = 0 /\ n >= 2 /\ Len(out) = n + 1

\* C5: main's scenario, find_pattern("eksksforgreeks", "eks"), reports exactly
\* 0 and 11, in that order, and no other window of the text has the pattern's
\* hash.
C5_MainScenario ==
    (se = s1 /\ pa = s2) =>
        /\ pc = "done" => out = <<0, 11>>
        /\ \A j \in 1..Len(out) : out[j] \in {0, 11}
        /\ \A k \in 0..(n - m) :
             PolyHash(Window(k)) = PolyHash(pa) => k \in {0, 11}

C5_Witness ==
    se = s1 /\ pa = s2 /\ pc = "done" /\ Len(out) = 2

\* C6: the offsets reported during one call are strictly ascending: each one
\* is greater than every offset reported before it.
C6_StrictlyAscending ==
    \A j \in 1..Len(out) : \A k \in 1..Len(out) : j < k => out[j] < out[k]

C6_Witness ==
    pc = "done" /\ Len(out) >= 3 /\ m >= 1

\* C7: for 1 <= m <= n, sum1 equals the exact polynomial hash of window 0 when
\* the first loop is left, and of window i after the rolling update for i.
C7_IncrementalEqualsDirect ==
    (1 <= m /\ m <= n) =>
        /\ (pc = "hash" /\ i = m) => sum1 = PolyHash(Window(0))
        /\ pc = "slide" => sum1 = PolyHash(Window(i - 1))

\* C8: for 1 <= m <= n, every offset at which the pattern occurs has been
\* reported when find_pattern returns: a true occurrence is never missed.
C8_NoMissedOccurrence ==
    (pc = "done" /\ 1 <= m /\ m <= n) => TrueOffsets \subseteq Reported

\* C9: when find_pattern has returned it has compared a window hash with the
\* pattern hash exactly n-m+1 times, for every n and m.
C9_WindowEvaluations ==
    pc = "done" => evals = n - m + 1

\* C10: no hash value find_pattern computes leaves the range of the long long
\* that holds it.
C10_NoOverflow ==
    ~overflowed

====
